---- MODULE Spec2Model ----
(***************************************************************************)
(* Model of src/main.py: the conversion of a member offset dump into       *)
(* padded class declarations.  convert_file is modelled as a state         *)
(* machine: order_classes (Kahn's algorithm), compute_class_sizes and the  *)
(* emitting loops, each loop iteration one step.  normalize_type and the   *)
(* regular expression it uses are operators over character sequences.      *)
(*                                                                         *)
(* A raw type string is a sequence of one-character strings, so that the   *)
(* array pattern is matched character by character.  The input of the      *)
(* model is the list parse_classes returns: records (name, parent, fields), *)
(* every field the three groups of offset_pattern (var, hex digits, type). *)
(***************************************************************************)
EXTENDS Integers, Sequences, FiniteSets, TLC

VARIABLES
    classes,        \* the list parse_classes returned (the input)
    pc,             \* position in convert_file
    name_to_class,  \* order_classes: dict name -> record
    rev_deps,       \* order_classes: dict parent -> set of children
    indegree,       \* order_classes: dict name -> number of parents
    queue,          \* order_classes: deque of ready names
    ordered,        \* the list order_classes builds and returns
    sizes,          \* compute_class_sizes: dict name -> size
    ci,             \* index of the class a for loop over ordered is at
    fi,             \* index of the field the inner for loop is at
    last_offset,    \* the cursor of the current class walk
    output          \* the emitted lines

vars == <<classes, pc, name_to_class, rev_deps, indegree, queue, ordered,
          sizes, ci, fi, last_offset, output>>

-----------------------------------------------------------------------------
(* Bounds of the model. *)
MaxClasses == 3
MaxFields == 2

-----------------------------------------------------------------------------
(* Characters and strings. *)

Digits == {"0", "1", "2", "3", "4", "5", "6", "7", "8", "9"}

Letters ==
    {"a", "b", "c", "d", "e", "f", "g", "h", "i", "j", "k", "l", "m",
     "n", "o", "p", "q", "r", "s", "t", "u", "v", "w", "x", "y", "z",
     "A", "B", "C", "D", "E", "F", "G", "H", "I", "J", "K", "L", "M",
     "N", "O", "P", "Q", "R", "S", "T", "U", "V", "W", "X", "Y", "Z"}

\* the character class [A-Za-z0-9_<>:] of array_pattern
BaseChars == Letters \cup Digits \cup {"_", "<", ">", ":"}

Whitespace == {" ", "\t", "\n", "\r"}

DigitVal ==
    [c \in Digits \cup {"a", "b", "c", "d", "e", "f", "A", "B", "C", "D", "E", "F"} |->
        CASE c = "0" -> 0 [] c = "1" -> 1 [] c = "2" -> 2 [] c = "3" -> 3
          [] c = "4" -> 4 [] c = "5" -> 5 [] c = "6" -> 6 [] c = "7" -> 7
          [] c = "8" -> 8 [] c = "9" -> 9
          [] c \in {"a", "A"} -> 10 [] c \in {"b", "B"} -> 11
          [] c \in {"c", "C"} -> 12 [] c \in {"d", "D"} -> 13
          [] c \in {"e", "E"} -> 14 [] c \in {"f", "F"} -> 15]

HexChar ==
    <<"0", "1", "2", "3", "4", "5", "6", "7", "8", "9", "A", "B", "C", "D", "E", "F">>

\* "".join(chars)
RECURSIVE Join(_)
Join(s) == IF s = <<>> THEN "" ELSE Head(s) \o Join(Tail(s))

\* int(digits, base)
RECURSIVE IntOf(_, _)
IntOf(s, base) ==
    IF s = <<>> THEN 0
    ELSE IntOf(SubSeq(s, 1, Len(s) - 1), base) * base + DigitVal[s[Len(s)]]

\* format(n, "X")
RECURSIVE HexDigits(_)
HexDigits(n) ==
    IF n < 16 THEN <<HexChar[n + 1]>>
    ELSE Append(HexDigits(n \div 16), HexChar[(n % 16) + 1])

\* zero padding to a minimum width
RECURSIVE ZeroPad(_, _)
ZeroPad(s, width) == IF Len(s) >= width THEN s ELSE ZeroPad(<<"0">> \o s, width)

\* f"{n:04X}"
Hex04(n) == Join(ZeroPad(HexDigits(n), 4))

\* the length of the longest prefix of s made of characters of class
RECURSIVE PrefixLen(_, _)
PrefixLen(s, class) ==
    IF s = <<>> \/ Head(s) \notin class THEN 0
    ELSE 1 + PrefixLen(Tail(s), class)

\* str.strip()
RECURSIVE Strip(_)
Strip(s) ==
    IF s = <<>> THEN s
    ELSE IF Head(s) \in Whitespace THEN Strip(Tail(s))
    ELSE IF s[Len(s)] \in Whitespace THEN Strip(SubSeq(s, 1, Len(s) - 1))
    ELSE s

Max(a, b) == IF a > b THEN a ELSE b

Range(f) == {f[x] : x \in DOMAIN f}

-----------------------------------------------------------------------------
(* The tables of main.py. *)

pointer_size == 8

type_map ==
    ("bool" :> "bool") @@ ("uint8" :> "uint8_t") @@ ("uint16" :> "uint16_t")
    @@ ("int16" :> "int16_t") @@ ("int32" :> "int32_t") @@ ("uint32" :> "uint32_t")
    @@ ("int64" :> "int64_t") @@ ("uint64" :> "uint64_t") @@ ("float32" :> "float")
    @@ ("float" :> "float") @@ ("Vector" :> "Vector3") @@ ("Vector2" :> "Vector2")
    @@ ("Vector2D" :> "Vector2") @@ ("Vector3" :> "Vector3") @@ ("Vector4" :> "Vector4")
    @@ ("QAngle" :> "Vector3") @@ ("Quaternion" :> "Vector4") @@ ("char" :> "char")
    @@ ("CUtlStringToken" :> "uint32_t") @@ ("CModelState" :> "void*")

array_map ==
    ("Vector2D" :> "Vector2") @@ ("float[2]" :> "Vector2")
    @@ ("float[3]" :> "Vector3") @@ ("float[4]" :> "Vector4")

size_map ==
    ("bool" :> 1) @@ ("int" :> 4) @@ ("uint8_t" :> 1) @@ ("int16_t" :> 2)
    @@ ("uint16_t" :> 2) @@ ("int32_t" :> 4) @@ ("uint32_t" :> 4) @@ ("float" :> 4)
    @@ ("int64_t" :> 8) @@ ("uint64_t" :> 8) @@ ("uintptr_t" :> pointer_size)
    @@ ("void*" :> pointer_size) @@ ("char" :> 1) @@ ("Vector2" :> 8)
    @@ ("Vector3" :> 12) @@ ("QAngle" :> 12) @@ ("Vector4" :> 16)

\* special_map[key][0]
special_map ==
    ("CHandle<C_BaseEntity>" :> "uint32_t") @@ ("CHandle<C_BaseModelEntity>" :> "uint32_t")
    @@ ("CUtlStringToken" :> "uint32_t") @@ ("GameTime_t" :> "float")
    @@ ("GameTick_t" :> "int32_t") @@ ("AttachmentHandle_t" :> "uint8_t")

\* size_map.get(name, 4)
SizeGet(name) == IF name \in DOMAIN size_map THEN size_map[name] ELSE 4

-----------------------------------------------------------------------------
(* normalize_type. *)

\* array_pattern.match(s): ([A-Za-z0-9_<>:]+)\[(\d+)\] anchored at the start
\* only.  "[" is no base character and "]" no digit, so the greedy groups
\* are the only way to match.
ArrayMatch(s) ==
    LET b == PrefixLen(s, BaseChars)
        rest == SubSeq(s, b + 2, Len(s))
        d == PrefixLen(rest, Digits)
    IN  IF /\ b >= 1
           /\ Len(s) >= b + 1
           /\ s[b + 1] = "["
           /\ d >= 1
           /\ Len(rest) >= d + 1
           /\ rest[d + 1] = "]"
        THEN [ok |-> TRUE, base |-> SubSeq(s, 1, b), count |-> SubSeq(rest, 1, d)]
        ELSE [ok |-> FALSE]

Scalar(name) == [tuple |-> FALSE, name |-> name]
Array(name, count) == [tuple |-> TRUE, name |-> name, count |-> count]

\* normalize_type with the array_map lookup made before the array pattern
normalize_type_alias_first(ctype) ==
    LET s == Strip(ctype)
        am == ArrayMatch(s)
        str == Join(s)
    IN  IF str \in DOMAIN array_map THEN Scalar(array_map[str])
        ELSE IF am.ok
        THEN LET base == Join(Strip(am.base))
                 count == IntOf(am.count, 10)
             IN  IF base \in DOMAIN type_map THEN Array(type_map[base], count)
                 ELSE IF base \in Range(type_map) THEN Array(base, count)
                 ELSE Array("uint32_t", count)
        ELSE IF str \in DOMAIN type_map THEN Scalar(type_map[str])
        ELSE IF str \in Range(type_map) THEN Scalar(str)
        ELSE IF str \in DOMAIN special_map THEN Scalar(special_map[str])
        ELSE Scalar("uint32_t")

\* normalize_type whose fallback for an unknown array base drops the count
normalize_type_scalar_fallback(ctype) ==
    LET s == Strip(ctype)
        am == ArrayMatch(s)
        str == Join(s)
    IN  IF am.ok
        THEN LET base == Join(Strip(am.base))
                 count == IntOf(am.count, 10)
             IN  IF base \in DOMAIN type_map THEN Array(type_map[base], count)
                 ELSE IF base \in Range(type_map) THEN Array(base, count)
                 ELSE Scalar("uint32_t")
        ELSE IF str \in DOMAIN array_map THEN Scalar(array_map[str])
        ELSE IF str \in DOMAIN type_map THEN Scalar(type_map[str])
        ELSE IF str \in Range(type_map) THEN Scalar(str)
        ELSE IF str \in DOMAIN special_map THEN Scalar(special_map[str])
        ELSE Scalar("uint32_t")

normalize_type(ctype) ==
    LET s == Strip(ctype)
        am == ArrayMatch(s)
        str == Join(s)
    IN  IF am.ok
        THEN LET base == Join(Strip(am.base))
                 count == IntOf(am.count, 10)
             IN  IF base \in DOMAIN type_map THEN Array(type_map[base], count)
                 ELSE IF base \in Range(type_map) THEN Array(base, count)
                 ELSE Array("uint32_t", count)
        ELSE IF str \in DOMAIN array_map THEN Scalar(array_map[str])
        ELSE IF str \in DOMAIN type_map THEN Scalar(type_map[str])
        ELSE IF str \in Range(type_map) THEN Scalar(str)
        ELSE IF str \in DOMAIN special_map THEN Scalar(special_map[str])
        ELSE Scalar("uint32_t")

\* the size both passes compute from normalize_type's result
FieldSize(nt) ==
    IF nt.tuple THEN SizeGet(nt.name) * nt.count ELSE SizeGet(nt.name)

-----------------------------------------------------------------------------
(* The inputs: lists of class records as parse_classes returns them. *)

None == "<None>"

Names == {"A", "B", "C"}
\* "X" names a parent that no record of the input defines
ParentNames == Names \cup {"X"}

F(var, hex, ctype) == [var |-> var, hex |-> hex, ctype |-> ctype]
Class(name, parent, fields) == [name |-> name, parent |-> parent, fields |-> fields]

\* float32
T_float32 ==
    <<"f", "l", "o", "a", "t", "3", "2">>

\* Vector
T_Vector ==
    <<"V", "e", "c", "t", "o", "r">>

\* float[2]
T_float2 ==
    <<"f", "l", "o", "a", "t", "[", "2", "]">>

\* float[3]
T_float3 ==
    <<"f", "l", "o", "a", "t", "[", "3", "]">>

\* float[4]
T_float4 ==
    <<"f", "l", "o", "a", "t", "[", "4", "]">>

\* Foo
T_Foo ==
    <<"F", "o", "o">>

\* Foo[2]
T_FooArr ==
    <<"F", "o", "o", "[", "2", "]">>

\* float [3]
T_floatSp ==
    <<"f", "l", "o", "a", "t", " ", "[", "3", "]">>

\* bool
T_bool ==
    <<"b", "o", "o", "l">>

\* CHandle<C_BaseEntity>
T_Handle ==
    <<"C", "H", "a", "n", "d", "l", "e", "<", "C", "_", "B", "a", "s", "e", "E", "n", "t", "i", "t", "y", ">">>

\* GameTime_t[2]
T_GameTimeArr ==
    <<"G", "a", "m", "e", "T", "i", "m", "e", "_", "t", "[", "2", "]">>

\* Vector2D
T_Vector2D ==
    <<"V", "e", "c", "t", "o", "r", "2", "D">>

\* uint32_t[4]
T_uint32Arr ==
    <<"u", "i", "n", "t", "3", "2", "_", "t", "[", "4", "]">>

\* QAngle[2]
T_QAngleArr ==
    <<"Q", "A", "n", "g", "l", "e", "[", "2", "]">>

\* CModelState
T_ModelState ==
    <<"C", "M", "o", "d", "e", "l", "S", "t", "a", "t", "e">>

\* Vector4
T_Vector4 ==
    <<"V", "e", "c", "t", "o", "r", "4">>

\* Foo[3]x
T_FooArrTail ==
    <<"F", "o", "o", "[", "3", "]", "x">>

TypePool ==
    {T_float32, T_Vector, T_float2, T_float3, T_float4,
     T_Foo, T_FooArr, T_floatSp, T_bool, T_Handle,
     T_GameTimeArr, T_Vector2D, T_uint32Arr, T_QAngleArr, T_ModelState,
     T_Vector4, T_FooArrTail}

\* sequences over S of length at most n
SeqsUpTo(S, n) == UNION {[1..k -> S] : k \in 0..n}

\* Inputs that exercise the ordering: every list of at most MaxClasses
\* records over Names and ParentNames (roots, chains, siblings, cycles, self
\* parents, repeated names); the record at position i carries the i-th body.
OrderBodies ==
    << <<F("m_a", <<"0">>, T_float32)>>,
       <<F("m_b", <<"0">>, T_Vector)>>,
       <<F("m_c", <<"4">>, T_Vector4)>>,
       <<>> >>

BodyAt(i) == OrderBodies[((i - 1) % Len(OrderBodies)) + 1]

OrderInputs ==
    {[i \in DOMAIN s |-> Class(s[i][1], s[i][2], BodyAt(i))] :
        s \in SeqsUpTo(Names \X ParentNames, MaxClasses)}

\* Inputs that exercise the layout: a class A and a class B that may derive
\* from it, B with every list of at most MaxFields fields of LayoutPool.
LayoutPool ==
    {F("m_flHealth", h, T_float32) : h \in {<<"0">>, <<"4">>, <<"8">>, <<"1", "0">>}}
    \cup {F("m_vecPos", h, T_Vector) : h \in {<<"0">>, <<"4">>, <<"8">>, <<"1", "0">>}}
    \cup {F("m_arr", h, T_FooArr) : h \in {<<"0">>, <<"4">>, <<"8">>, <<"1", "0">>}}

ParentBodies ==
    { <<>>,
      <<F("m_id", <<"0">>, T_float32)>>,
      <<F("m_id", <<"0">>, T_float32), F("m_pos", <<"4">>, T_Vector)>> }

LayoutInputs ==
    {<<Class("A", "X", pf), Class("B", p, cf)>> :
        pf \in ParentBodies, p \in {"A", "X"}, cf \in SeqsUpTo(LayoutPool, MaxFields)}

\* Inputs that exercise normalize_type: one class with one field of each raw
\* type of TypePool.
TypeInputs ==
    {<<Class("A", "X", <<F("m_x", h, t)>>)>> : h \in {<<"0">>, <<"8">>}, t \in TypePool}
    \cup {<<Class("A", "X", <<F("m_x", <<"0">>, T_Foo), F("m_y", <<"8">>, T_FooArr)>>)>>}

Inputs == OrderInputs \cup LayoutInputs \cup TypeInputs

-----------------------------------------------------------------------------
(* order_classes. *)

\* the names of cls in first-seen order: the key order of the dict indegree
RECURSIVE FirstSeen(_)
FirstSeen(cls) ==
    IF cls = <<>> THEN <<>>
    ELSE LET rest == FirstSeen(SubSeq(cls, 1, Len(cls) - 1))
             n == cls[Len(cls)].name
         IN  IF n \in Range(rest) THEN rest ELSE Append(rest, n)

NameSet(cls) == {cls[i].name : i \in DOMAIN cls}

\* {name: (name, parent, body) for ...}: a later record replaces an earlier
\* one of the same name
NameToClass(cls) ==
    [n \in NameSet(cls) |->
        cls[CHOOSE i \in DOMAIN cls :
                /\ cls[i].name = n
                /\ \A j \in DOMAIN cls : cls[j].name = n => j <= i]]

\* the test of line 125 without "parent in name_to_class"
ParentKnown_always(parent, cls) == TRUE

\* the test of line 125
ParentKnown(parent, cls) == parent \in NameSet(cls)

\* deps[name]: the known parents of every record called name
Deps(cls) ==
    [n \in NameSet(cls) |->
        {cls[i].parent : i \in {j \in DOMAIN cls :
                                   /\ cls[j].name = n
                                   /\ ParentKnown(cls[j].parent, cls)}}]

\* rev_deps[parent]: a defaultdict, empty for a name without children
RevDeps(cls) ==
    [p \in NameSet(cls) |-> {n \in NameSet(cls) : p \in Deps(cls)[n]}]

InDegree(cls) == [n \in NameSet(cls) |-> Cardinality(Deps(cls)[n])]

\* the initial queue without the filter "if d == 0"
InitialQueue_unfiltered(cls) == FirstSeen(cls)

\* deque([n for n, d in indegree.items() if d == 0])
InitialQueue(cls) ==
    LET Ready(n) == InDegree(cls)[n] = 0
    IN  SelectSeq(FirstSeen(cls), Ready)

\* the orders in which iterating a set of str can yield its elements: the
\* order follows the hash values, which differ from one run to the next
IterationOrders(S) ==
    {s \in [1..Cardinality(S) -> S] : Range(s) = S}

\* the for loop of lines 137-140 over the children in the order perm
RECURSIVE Release(_, _, _)
Release(perm, indeg, q) ==
    IF perm = <<>> THEN [indegree |-> indeg, queue |-> q]
    ELSE LET dep == Head(perm)
             indeg2 == [indeg EXCEPT ![dep] = @ - 1]
         IN  Release(Tail(perm), indeg2,
                     IF indeg2[dep] = 0 THEN Append(q, dep) ELSE q)

\* lines 133-136: the record appended to ordered
OrderedEntry(name, ntc) ==
    LET rec == ntc[name]
    IN  [name |-> name,
         parent |-> IF rec.parent \notin DOMAIN ntc THEN None ELSE rec.parent,
         fields |-> rec.fields]

-----------------------------------------------------------------------------
(* compute_class_sizes and the emitting loops of convert_file. *)

\* int(offset_hex, 16)
Offset(f) == IntOf(f.hex, 16)

\* lines 164-166 of compute_class_sizes: the cursor after a field
SizeCursor(last, f) ==
    LET end == Offset(f) + FieldSize(normalize_type(f.ctype))
    IN  IF end > last THEN end ELSE last

\* sizes.get(parent, 0)
ParentSize(sz, parent) == IF parent \in DOMAIN sz THEN sz[parent] ELSE 0

\* line 169 without the parent's size
ClassSize_own(last, parent_size) == last

\* line 169
ClassSize(last, parent_size) == Max(last, parent_size)

\* line 197
EmitStart(sz, parent) == IF parent # None THEN ParentSize(sz, parent) ELSE 0

\* lines 194-195
ClassLine(name, parent) ==
    [kind |-> "class", name |-> name,
     parent_decl |-> IF parent # None THEN " : public " \o parent ELSE ""]

\* line 212 with the padding named after the field's offset
PadLine_at_field(last, offset) ==
    [kind |-> "pad", name |-> "pad_" \o Hex04(offset), size |-> offset - last]

\* line 212
PadLine(last, offset) ==
    [kind |-> "pad", name |-> "pad_" \o Hex04(last), size |-> offset - last]

\* lines 221 and 225
FieldLine(nt, f) ==
    IF nt.tuple
    THEN [kind |-> "field", type |-> nt.name, var |-> f.var, array |-> TRUE,
          count |-> nt.count, off |-> "0x" \o Hex04(Offset(f)), raw |-> f.ctype]
    ELSE [kind |-> "field", type |-> nt.name, var |-> f.var, array |-> FALSE,
          count |-> 1, off |-> "0x" \o Hex04(Offset(f)), raw |-> f.ctype]

\* lines 207-226: the lines one field adds to the output
FieldLines(last, f) ==
    IF Offset(f) < last THEN <<>>
    ELSE (IF Offset(f) > last THEN <<PadLine(last, Offset(f))>> ELSE <<>>)
         \o <<FieldLine(normalize_type(f.ctype), f)>>

\* lines 207-226: the cursor after one field
EmitCursor(last, f) ==
    IF Offset(f) < last THEN last
    ELSE Offset(f) + FieldSize(normalize_type(f.ctype))

Preamble ==
    << [kind |-> "text", text |-> "#pragma once"],
       [kind |-> "text", text |-> "#include <cstdint>"],
       [kind |-> "text", text |-> "#include <cstddef>"],
       [kind |-> "text", text |-> "struct Vector2 { float x, y; };"],
       [kind |-> "text", text |-> "struct Vector3 { float x, y, z; };"],
       [kind |-> "text", text |-> "struct Vector4 { float x, y, z, w; };"],
       [kind |-> "text", text |-> "using QAngle = Vector3;"] >>

ForwardLines(ord) == [i \in DOMAIN ord |-> [kind |-> "forward", name |-> ord[i].name]]

-----------------------------------------------------------------------------
(* The state machine. *)

Init ==
    /\ classes \in Inputs
    /\ pc = "order_init"
    /\ name_to_class = <<>>
    /\ rev_deps = <<>>
    /\ indegree = <<>>
    /\ queue = <<>>
    /\ ordered = <<>>
    /\ sizes = <<>>
    /\ ci = 0
    /\ fi = 0
    /\ last_offset = 0
    /\ output = <<>>

\* order_classes, lines 121-130
order_init ==
    /\ pc = "order_init"
    /\ name_to_class' = NameToClass(classes)
    /\ rev_deps' = RevDeps(classes)
    /\ indegree' = InDegree(classes)
    /\ queue' = InitialQueue(classes)
    /\ ordered' = <<>>
    /\ pc' = "order_loop"
    /\ UNCHANGED <<classes, sizes, ci, fi, last_offset, output>>

\* one iteration of the while loop, lines 131-140
order_pop ==
    /\ pc = "order_loop"
    /\ queue # <<>>
    /\ LET name == Head(queue)
       IN  /\ ordered' = Append(ordered, OrderedEntry(name, name_to_class))
           /\ \E perm \in IterationOrders(rev_deps[name]) :
                LET r == Release(perm, indegree, Tail(queue))
                IN  /\ indegree' = r.indegree
                    /\ queue' = r.queue
    /\ UNCHANGED <<classes, pc, name_to_class, rev_deps, sizes, ci, fi,
                   last_offset, output>>

\* the loop ends, line 141; compute_class_sizes starts, lines 145-148
order_return ==
    /\ pc = "order_loop"
    /\ queue = <<>>
    /\ pc' = "sizes"
    /\ sizes' = <<>>
    /\ ci' = 1
    /\ fi' = 1
    /\ last_offset' = 0
    /\ UNCHANGED <<classes, name_to_class, rev_deps, indegree, queue, ordered, output>>

\* compute_class_sizes: one field, lines 149-166
size_field ==
    /\ pc = "sizes"
    /\ ci <= Len(ordered)
    /\ fi <= Len(ordered[ci].fields)
    /\ last_offset' = SizeCursor(last_offset, ordered[ci].fields[fi])
    /\ fi' = fi + 1
    /\ UNCHANGED <<classes, pc, name_to_class, rev_deps, indegree, queue, ordered,
                   sizes, ci, output>>

\* compute_class_sizes: the class is done, lines 168-169 (and 148 of the next)
size_class ==
    /\ pc = "sizes"
    /\ ci <= Len(ordered)
    /\ fi > Len(ordered[ci].fields)
    /\ sizes' = (ordered[ci].name :>
                    ClassSize(last_offset, ParentSize(sizes, ordered[ci].parent)))
                @@ sizes
    /\ ci' = ci + 1
    /\ fi' = 1
    /\ last_offset' = 0
    /\ UNCHANGED <<classes, pc, name_to_class, rev_deps, indegree, queue, ordered, output>>

\* compute_class_sizes returns, line 170; the preamble, lines 177-185
emit_preamble ==
    /\ pc = "sizes"
    /\ ci > Len(ordered)
    /\ output' = Preamble
    /\ pc' = "forward"
    /\ UNCHANGED <<classes, name_to_class, rev_deps, indegree, queue, ordered,
                   sizes, ci, fi, last_offset>>

\* the forward declarations, lines 187-189
emit_forward ==
    /\ pc = "forward"
    /\ output' = output \o ForwardLines(ordered)
    /\ pc' = "class_head"
    /\ ci' = 1
    /\ UNCHANGED <<classes, name_to_class, rev_deps, indegree, queue, ordered,
                   sizes, fi, last_offset>>

\* the head of a class, lines 193-198
emit_class_head ==
    /\ pc = "class_head"
    /\ ci <= Len(ordered)
    /\ output' = Append(output, ClassLine(ordered[ci].name, ordered[ci].parent))
    /\ last_offset' = EmitStart(sizes, ordered[ci].parent)
    /\ fi' = 1
    /\ pc' = "fields"
    /\ UNCHANGED <<classes, name_to_class, rev_deps, indegree, queue, ordered, sizes, ci>>

\* one field of a class, lines 200-226
emit_field ==
    /\ pc = "fields"
    /\ fi <= Len(ordered[ci].fields)
    /\ output' = output \o FieldLines(last_offset, ordered[ci].fields[fi])
    /\ last_offset' = EmitCursor(last_offset, ordered[ci].fields[fi])
    /\ fi' = fi + 1
    /\ UNCHANGED <<classes, pc, name_to_class, rev_deps, indegree, queue, ordered,
                   sizes, ci>>

\* the end of a class, line 228
emit_class_end ==
    /\ pc = "fields"
    /\ fi > Len(ordered[ci].fields)
    /\ output' = Append(output, [kind |-> "end", name |-> ordered[ci].name])
    /\ ci' = ci + 1
    /\ pc' = "class_head"
    /\ UNCHANGED <<classes, name_to_class, rev_deps, indegree, queue, ordered,
                   sizes, fi, last_offset>>

\* convert_file returns, line 230
emit_return ==
    /\ pc = "class_head"
    /\ ci > Len(ordered)
    /\ pc' = "done"
    /\ UNCHANGED <<classes, name_to_class, rev_deps, indegree, queue, ordered,
                   sizes, ci, fi, last_offset, output>>

Next ==
    \/ order_init
    \/ order_pop
    \/ order_return
    \/ size_field
    \/ size_class
    \/ emit_preamble
    \/ emit_forward
    \/ emit_class_head
    \/ emit_field
    \/ emit_class_end
    \/ emit_return

Spec == Init /\ [][Next]_vars

-----------------------------------------------------------------------------
(* Notions the properties are stated with. *)

Done == pc = "done"

\* the names of the lines of one kind, in the order of the output
KindNames(kind) ==
    LET IsKind(l) == l.kind = kind
        ls == SelectSeq(output, IsKind)
    IN  [i \in DOMAIN ls |-> ls[i].name]

\* in the sequence of names s, every occurrence of a name that a record gives a
\* known parent comes after an occurrence of that parent
ParentsFirst(s) ==
    \A i \in DOMAIN classes :
        classes[i].parent \in NameSet(classes) =>
            \A k \in DOMAIN s :
                s[k] = classes[i].name =>
                    \E j \in 1..(k - 1) : s[j] = classes[i].parent

OrderedNames == [k \in DOMAIN ordered |-> ordered[k].name]

\* the parents the records give a name, those among the record names only
ParentsOf(n) ==
    {classes[i].parent : i \in {j \in DOMAIN classes : classes[j].name = n}}
        \cap NameSet(classes)

\* the names whose parent chains all end at a root: k rounds of the closure
RECURSIVE Grounded(_)
Grounded(k) ==
    IF k = 0 THEN {}
    ELSE LET g == Grounded(k - 1)
         IN  {n \in NameSet(classes) : ParentsOf(n) \subseteq g}

EndAtRoot == Grounded(Len(classes))

\* the record an entry of ordered comes from: the last one of its name
LastRecord(n) ==
    classes[CHOOSE i \in DOMAIN classes :
                /\ classes[i].name = n
                /\ \A j \in DOMAIN classes : classes[j].name = n => j <= i]

\* the pad and field lines that follow line i of the output
RECURSIVE Members(_)
Members(i) ==
    IF i + 1 \in DOMAIN output /\ output[i + 1].kind \in {"pad", "field"}
    THEN <<output[i + 1]>> \o Members(i + 1)
    ELSE <<>>

\* the bytes a declared member takes
MemberSize(l) ==
    IF l.kind = "pad" THEN l.size ELSE size_map[l.type] * l.count

\* walking the members from byte pos: every field lies at the offset its
\* annotation gives, which is the offset of a field of the dump with its
\* name, and a padding member is named after the byte it starts at, is not
\* empty and leads to the field that follows it
RECURSIVE WalkOK(_, _, _)
WalkOK(ls, pos, fields) ==
    IF ls = <<>> THEN TRUE
    ELSE LET l == Head(ls)
         IN  /\ l.kind = "pad" =>
                    /\ l.size > 0
                    /\ l.name = "pad_" \o Hex04(pos)
                    /\ Len(ls) >= 2
                    /\ ls[2].kind = "field"
             /\ l.kind = "field" =>
                    /\ l.off = "0x" \o Hex04(pos)
                    /\ \E i \in DOMAIN fields :
                          /\ fields[i].var = l.var
                          /\ fields[i].ctype = l.raw
                          /\ Offset(fields[i]) = pos
             /\ WalkOK(Tail(ls), pos + MemberSize(l), fields)

\* the fields of the padding scenario: float32 at 0x0, Vector at 0x10
ScenarioFields ==
    <<F("m_flHealth", <<"0">>, T_float32), F("m_vecPos", <<"1", "0">>, T_Vector)>>

ScenarioMembers ==
    << [kind |-> "field", type |-> "float", var |-> "m_flHealth", array |-> FALSE,
        count |-> 1, off |-> "0x0000", raw |-> T_float32],
       [kind |-> "pad", name |-> "pad_0004", size |-> 12],
       [kind |-> "field", type |-> "Vector3", var |-> "m_vecPos", array |-> FALSE,
        count |-> 1, off |-> "0x0010", raw |-> T_Vector] >>

FieldLinesOut == {output[i] : i \in {j \in DOMAIN output : output[j].kind = "field"}}

\* a class of ordered with one field and no parent: its size is its field's end
SingleField(k) == ordered[k].parent = None /\ Len(ordered[k].fields) = 1

\* the raw type is in no table and has not the shape Base[Count]
UnknownScalar(raw) ==
    /\ ~ArrayMatch(raw).ok
    /\ Join(raw) \notin DOMAIN type_map \cup Range(type_map)
                        \cup DOMAIN array_map \cup DOMAIN special_map

\* the raw type has the shape Base[Count], Base no key and no value of type_map
UnknownArray(raw) ==
    /\ ArrayMatch(raw).ok
    /\ Join(ArrayMatch(raw).base) \notin DOMAIN type_map \cup Range(type_map)

-----------------------------------------------------------------------------
(* C1 *)

\* C1: in the list order_classes returns, in the forward declarations and in
\* the full declarations, every class that a record gives a parent named by
\* some record comes strictly after that parent.
C1_ParentBeforeChild ==
    /\ ParentsFirst(OrderedNames)
    /\ ParentsFirst(KindNames("forward"))
    /\ ParentsFirst(KindNames("class"))

\* a chain given children first has been put out parents first
C1_Witness ==
    /\ Done
    /\ Len(classes) = 3
    /\ classes[1].parent = classes[2].name
    /\ classes[2].parent = classes[3].name
    /\ KindNames("class") = <<classes[3].name, classes[2].name, classes[1].name>>
    /\ KindNames("forward") = KindNames("class")

-----------------------------------------------------------------------------
(* C2 *)

\* C2: the emitter's walk of a class starts at the parent's entry of the size
\* table (0 without a parent); every emitted field lies at its dumped offset,
\* after exactly one padding member of the missing bytes named
\* pad_<cursor> when the offset is beyond the cursor and after none when it
\* is at the cursor.  A class without parent with float32 at 0x0 and Vector
\* at 0x10 gives a float, pad_0004 of 12 bytes and a Vector3, and size 28.
C2_FieldsAtOffsets ==
    \A i \in DOMAIN output :
        output[i].kind = "class" =>
            \E k \in DOMAIN ordered :
                /\ ordered[k].name = output[i].name
                /\ WalkOK(Members(i),
                          IF ordered[k].parent = None THEN 0
                          ELSE sizes[ordered[k].parent],
                          ordered[k].fields)
                /\ (/\ ordered[k].parent = None
                    /\ ordered[k].fields = ScenarioFields
                    /\ i + 4 \in DOMAIN output
                    /\ output[i + 4].kind = "end")
                   => /\ Members(i) = ScenarioMembers
                      /\ sizes[ordered[k].name] = 28

\* the scenario has been emitted with its padding member, and so has a class
\* whose second field starts where the first ends, without padding
C2_Witness ==
    /\ Done
    /\ \E k \in DOMAIN ordered :
          /\ ordered[k].parent = None
          /\ ordered[k].fields = ScenarioFields
    /\ \E i \in DOMAIN output :
          /\ output[i].kind = "class"
          /\ Len(Members(i)) = 2
          /\ Members(i)[1].kind = "field"
          /\ Members(i)[2].kind = "field"

-----------------------------------------------------------------------------
(* C3 *)

\* C3: the emitter and the layout computer agree: when the emitter has walked
\* the last field of a class, its cursor is the class's entry of the size
\* table.
C3_CursorIsTableSize ==
    (pc = "fields" /\ fi > Len(ordered[ci].fields))
        => last_offset = sizes[ordered[ci].name]

-----------------------------------------------------------------------------
(* C4 *)

\* C4: a class of the output whose parent is a record name is at least as
\* large as that parent and its header inherits from it; a class whose
\* parent is no record name is emitted without inheritance clause.
C4_InheritanceMonotone ==
    /\ \A k \in DOMAIN ordered :
          LET n == ordered[k].name
              p == LastRecord(n).parent
          IN  (p \in NameSet(classes) /\ n \in DOMAIN sizes)
                  => p \in DOMAIN sizes /\ sizes[n] >= sizes[p]
    /\ \A i \in DOMAIN output :
          output[i].kind = "class" =>
              LET p == LastRecord(output[i].name).parent
              IN  output[i].parent_decl =
                      IF p \in NameSet(classes) THEN " : public " \o p ELSE ""

\* a derived class whose own fields end before its parent's size has the
\* parent's size and inherits; the parent itself has no inheritance clause
C4_Witness ==
    /\ Done
    /\ \E k \in DOMAIN ordered :
          /\ ordered[k].parent # None
          /\ ordered[k].fields # <<>>
          /\ sizes[ordered[k].parent] = 16
          /\ sizes[ordered[k].name] = 16
    /\ \E i, j \in DOMAIN output :
          /\ output[i].kind = "class" /\ output[i].parent_decl = ""
          /\ output[j].kind = "class" /\ output[j].parent_decl = " : public A"

-----------------------------------------------------------------------------
(* C5 *)

\* C5: a raw type of the shape Base[Count] is resolved by the array rule and
\* not by array_map: float[2], float[3] and float[4] are emitted as arrays of
\* 2, 3 and 4 float, never as a Vector, and take 8, 12 and 16 bytes.
C5_ArrayRuleFirst ==
    /\ \A l \in FieldLinesOut :
          /\ ArrayMatch(l.raw).ok => l.array
          /\ l.raw = T_float2 => l.type = "float" /\ l.array /\ l.count = 2
          /\ l.raw = T_float3 => l.type = "float" /\ l.array /\ l.count = 3
          /\ l.raw = T_float4 => l.type = "float" /\ l.array /\ l.count = 4
    /\ \A k \in DOMAIN ordered :
          (SingleField(k) /\ ordered[k].name \in DOMAIN sizes) =>
              LET f == ordered[k].fields[1]
                  sz == sizes[ordered[k].name] - Offset(f)
              IN  /\ f.ctype = T_float2 => sz = 8
                  /\ f.ctype = T_float3 => sz = 12
                  /\ f.ctype = T_float4 => sz = 16

\* a float[3] field has been emitted as an array of 3 float
C5_Witness ==
    /\ Done
    /\ \E l \in FieldLinesOut :
          l.raw = T_float3 /\ l.type = "float" /\ l.array /\ l.count = 3
    /\ sizes["A"] \in {12, 20}

-----------------------------------------------------------------------------
(* C6 *)

\* C6: a raw type in no table and not of the array shape becomes the scalar
\* uint32_t; one of the shape Base[Count] with an unknown Base becomes an
\* array of Count uint32_t; both passes take 4 and 4 * Count bytes for it.
C6_Fallback ==
    /\ \A l \in FieldLinesOut :
          /\ UnknownScalar(l.raw) => l.type = "uint32_t" /\ ~l.array
          /\ UnknownArray(l.raw) =>
                /\ l.type = "uint32_t"
                /\ l.array
                /\ l.count = IntOf(ArrayMatch(l.raw).count, 10)
          /\ l.raw = T_Foo => l.type = "uint32_t" /\ ~l.array
          /\ l.raw = T_floatSp => l.type = "uint32_t" /\ ~l.array
          /\ l.raw = T_FooArr => l.type = "uint32_t" /\ l.array /\ l.count = 2
          /\ l.raw = T_GameTimeArr => l.type = "uint32_t" /\ l.array /\ l.count = 2
    /\ \A k \in DOMAIN ordered :
          SingleField(k) =>
              LET f == ordered[k].fields[1]
                  bytes == IF UnknownScalar(f.ctype) THEN 4
                           ELSE 4 * IntOf(ArrayMatch(f.ctype).count, 10)
              IN  (UnknownScalar(f.ctype) \/ UnknownArray(f.ctype)) =>
                      \* the layout computer
                      /\ ordered[k].name \in DOMAIN sizes =>
                            sizes[ordered[k].name] = Offset(f) + bytes
                      \* the emitter, its cursor after the field
                      /\ (pc = "fields" /\ ci = k /\ fi = 2) =>
                            last_offset = Offset(f) + bytes

\* an unknown scalar and an unknown array have been emitted in one class of
\* 16 bytes: Foo at 0x0 and Foo[2] at 0x8
C6_Witness ==
    /\ Done
    /\ \E l \in FieldLinesOut : l.raw = T_Foo /\ l.type = "uint32_t"
    /\ \E l \in FieldLinesOut : l.raw = T_FooArr /\ l.count = 2
    /\ sizes["A"] = 16

-----------------------------------------------------------------------------
(* C7 *)

\* the layout walk of section 4.4 of the specification: a field below the cursor is
\* skipped
RECURSIVE SkipWalk(_, _)
SkipWalk(fields, cursor) ==
    IF fields = <<>> THEN cursor
    ELSE LET f == Head(fields)
         IN  SkipWalk(Tail(fields),
                      IF Offset(f) < cursor THEN cursor
                      ELSE Max(cursor, Offset(f) + FieldSize(normalize_type(f.ctype))))

\* C7: the layout computer starts its cursor at 0, skips a field whose offset
\* is below the cursor, and the class size is the larger of the final cursor
\* and the parent's size.
C7_LayoutSkipsOverlap ==
    \A k \in DOMAIN ordered :
        ordered[k].name \in DOMAIN sizes =>
            sizes[ordered[k].name] =
                Max(SkipWalk(ordered[k].fields, 0),
                    IF ordered[k].parent = None THEN 0 ELSE sizes[ordered[k].parent])

-----------------------------------------------------------------------------
(* C8 *)

\* Kahn's algorithm with the children of a class released in first-seen order
RECURSIVE FirstSeenOrder(_, _, _)
FirstSeenOrder(q, indeg, out) ==
    IF q = <<>> THEN out
    ELSE LET n == Head(q)
             IsChild(c) == n \in ParentsOf(c)
             r == Release(SelectSeq(FirstSeen(classes), IsChild), indeg, Tail(q))
         IN  FirstSeenOrder(r.queue, r.indegree, Append(out, n))

\* C8: the output of order_classes is determined by its input: classes ready
\* at the same time are put out in first-seen order.
C8_FirstSeenOrder ==
    pc # "order_init" /\ pc # "order_loop" =>
        OrderedNames =
            FirstSeenOrder(InitialQueue(classes), InDegree(classes), <<>>)

-----------------------------------------------------------------------------
(* C9 *)

\* C9: two records of the same name are both kept: when every class ends at a
\* root, the output has one entry for each record, with that record's fields.
C9_BothRecordsKept ==
    (pc # "order_init" /\ pc # "order_loop" /\ NameSet(classes) \subseteq EndAtRoot)
        => /\ Len(ordered) = Len(classes)
           /\ \A i \in DOMAIN classes :
                 \E k \in DOMAIN ordered :
                     /\ ordered[k].name = classes[i].name
                     /\ ordered[k].fields = classes[i].fields

-----------------------------------------------------------------------------
(* C10 *)

\* C10: order_classes ends on every input, cycles included, without error:
\* an iteration of its loop can always be taken or the loop left, and no name
\* is in the queue or the output twice, so the loop runs at most once per
\* name.  Its output and the emitted text hold exactly the classes whose
\* parent chains end at a root.
C10_TerminatesWithGrounded ==
    /\ pc = "order_loop" => ENABLED (order_pop \/ order_return)
    /\ \A i, j \in DOMAIN (OrderedNames \o queue) :
          (OrderedNames \o queue)[i] = (OrderedNames \o queue)[j] => i = j
    /\ Len(ordered) <= Cardinality(NameSet(classes))
    /\ Range(OrderedNames) \subseteq EndAtRoot
    /\ (pc # "order_init" /\ pc # "order_loop") => Range(OrderedNames) = EndAtRoot
    /\ Range(KindNames("forward")) \subseteq EndAtRoot
    /\ Done => /\ Range(KindNames("forward")) = EndAtRoot
               /\ Range(KindNames("class")) = EndAtRoot

\* a class that is its own parent and a class derived from it are dropped,
\* the third class is put out
C10_Witness ==
    /\ Done
    /\ ordered # <<>>
    /\ \E a, b \in NameSet(classes) \ Range(OrderedNames) :
          /\ a # b
          /\ a \in ParentsOf(a)
          /\ ParentsOf(b) = {a}

====
